---- MODULE Spec2Model ----
(***************************************************************************)
(* Model of src/src/day14.rs: the tilting platform (Platform::tilt,        *)
(* Platform::cycle, Platform::load, Platform::state_hash), the parser      *)
(* (Rock::try_from, Platform::from_str) and the cycle detector / projector *)
(* (Part2::solve).                                                         *)
(*                                                                         *)
(* Coordinates and indices are 0-based as in the source; TLA+ sequences    *)
(* are 1-based, so a cell is rocks[row + 1][col + 1].                      *)
(*                                                                         *)
(* Three specifications share the variables:                               *)
(*   Spec       tilts and cycles applied, in any order, to a platform;     *)
(*   SolveSpec  Part2::solve, one loop iteration per step;                 *)
(*   ParseSpec  Platform::from_str applied to a text.                      *)
(***************************************************************************)
EXTENDS Integers, Sequences, FiniteSets, TLC

\* ------------------------------------------------------------------ bounds
\* Largest side of a starting grid.
MaxN == 3
\* Most round rocks / cube rocks on a starting grid.
MaxRound == 3
MaxCube == 1
\* Most round rocks on a starting grid given to Part2::solve.
MaxSolveRound == 2
\* Largest target number of cycles given to Part2::new.
MaxT == 6
\* Longest input text given to Platform::from_str.
MaxLen == 5
\* Bits kept of the fingerprint by the narrow hasher (see Finish).
NarrowBits == 3

VARIABLES
    platform,            \* the `let mut platform` a test or a solver works on
    before,              \* the platform as it was before the last operation
    lastOp,              \* the last operation applied to `platform`
    repeated,            \* the last operation was a tilt repeating the tilt before it
    writes,              \* the cell stores made by the last operation
    panicked,            \* an index went out of range: the thread panicked
    text,                \* the &str handed to Platform::from_str
    parsed,              \* what from_str returned
    item,                \* Part2::solve: the borrowed input platform
    iterations,          \* Part2.iterations
    hasher,              \* which digest DefaultHasher is modelled by
    first_observations,  \* Part2::solve: Vec<u64> of fingerprints
    iteration,           \* Part2::solve: loop counter
    cycle,               \* Part2::solve: Option<Cycle>
    equivalent_iterations, \* Part2::solve: the projected number of cycles
    rerun,               \* Part2::solve: cycles the re-run loop has applied
    pc,                  \* Part2::solve: position in the function
    result               \* Part2::solve: the returned load

vars == <<platform, before, lastOp, repeated, writes, panicked, text, parsed, item,
          iterations, hasher, first_observations, iteration, cycle, equivalent_iterations,
          rerun, pc,
          result>>

\* ------------------------------------------------------------------ Rock
Round == "Round"
Cube == "Cube"
Empty == "Empty"
Rock == {Round, Cube, Empty}

North == "North"
East == "East"
South == "South"
West == "West"
Direction == {North, East, South, West}

\* ------------------------------------------------------------------ Coord
\* Mutant: South measures the gravity index from row 0, as North does.
from_gravity_south_unflipped(cross_idx, grav_idx, direction, size) ==
    CASE direction = North -> [row |-> grav_idx, col |-> cross_idx]
      [] direction = South -> [row |-> grav_idx, col |-> cross_idx]
      [] direction = East  -> [row |-> cross_idx, col |-> size - grav_idx - 1]
      [] direction = West  -> [row |-> cross_idx, col |-> grav_idx]

\* Mutant: East measures the gravity index from column size, one past the edge.
from_gravity_east_from_size(cross_idx, grav_idx, direction, size) ==
    CASE direction = North -> [row |-> grav_idx, col |-> cross_idx]
      [] direction = South -> [row |-> size - grav_idx - 1, col |-> cross_idx]
      [] direction = East  -> [row |-> cross_idx, col |-> size - grav_idx]
      [] direction = West  -> [row |-> cross_idx, col |-> grav_idx]

\* Mutant: East and West measure the gravity index from each other's edge.
from_gravity_east_west_swapped(cross_idx, grav_idx, direction, size) ==
    CASE direction = North -> [row |-> grav_idx, col |-> cross_idx]
      [] direction = South -> [row |-> size - grav_idx - 1, col |-> cross_idx]
      [] direction = East  -> [row |-> cross_idx, col |-> grav_idx]
      [] direction = West  -> [row |-> cross_idx, col |-> size - grav_idx - 1]

\* Mutant: South measures the gravity index from row size, one past the edge.
from_gravity_south_from_size(cross_idx, grav_idx, direction, size) ==
    CASE direction = North -> [row |-> grav_idx, col |-> cross_idx]
      [] direction = South -> [row |-> size - grav_idx, col |-> cross_idx]
      [] direction = East  -> [row |-> cross_idx, col |-> size - grav_idx - 1]
      [] direction = West  -> [row |-> cross_idx, col |-> grav_idx]

\* Mutant: North measures the gravity index from the last row, as South does.
from_gravity_north_from_bottom(cross_idx, grav_idx, direction, size) ==
    CASE direction = North -> [row |-> size - grav_idx - 1, col |-> cross_idx]
      [] direction = South -> [row |-> size - grav_idx - 1, col |-> cross_idx]
      [] direction = East  -> [row |-> cross_idx, col |-> size - grav_idx - 1]
      [] direction = West  -> [row |-> cross_idx, col |-> grav_idx]

from_gravity(cross_idx, grav_idx, direction, size) ==
    CASE direction = North -> [row |-> grav_idx, col |-> cross_idx]
      [] direction = South -> [row |-> size - grav_idx - 1, col |-> cross_idx]
      [] direction = East  -> [row |-> cross_idx, col |-> size - grav_idx - 1]
      [] direction = West  -> [row |-> cross_idx, col |-> grav_idx]

\* ------------------------------------------------------------------ Platform
\* Mutant: the size is the length of the first row.
from_iter_columns(rows) ==
    [rocks |-> rows, size |-> IF rows = <<>> THEN 0 ELSE Len(rows[1])]

\* FromIterator<Vec<Rock>>: the size is the number of rows.
from_iter(rows) == [rocks |-> rows, size |-> Len(rows)]

\* Vec indexing rocks[index.row][index.col] is bounds-checked (usize, so a
\* negative value stands for a wrapped subtraction and is out of range too).
InRange(rocks, coord) ==
    /\ coord.row >= 0
    /\ coord.row < Len(rocks)
    /\ coord.col >= 0
    /\ coord.col < Len(rocks[coord.row + 1])

\* Index<Coord>
index(rocks, coord) == rocks[coord.row + 1][coord.col + 1]

\* Mutant: the rock is pushed onto the row instead of stored in the cell.
index_mut_push(st, coord, rock) ==
    [st EXCEPT !.rocks[coord.row + 1] = Append(@, rock),
               !.writes = @ \cup {[row |-> coord.row, col |-> coord.col,
                                   old |-> index(st.rocks, coord),
                                   new |-> rock]}]

\* IndexMut<Coord> followed by the assignment: the store is logged with the
\* value it replaces.
index_mut(st, coord, rock) ==
    [st EXCEPT !.rocks[coord.row + 1][coord.col + 1] = rock,
               !.writes = @ \cup {[row |-> coord.row, col |-> coord.col,
                                   old |-> index(st.rocks, coord),
                                   new |-> rock]}]

\* The working state of one tilt: the platform's fields, the stores made so
\* far and whether an index panicked.
TiltState(p) == [rocks |-> p.rocks, size |-> p.size, writes |-> {}, panicked |-> FALSE]

Panic(st) == [st EXCEPT !.panicked = TRUE]

\* for grav_idx in grav_idxs { self[coord] = if remaining > 0 {..} else {..} }
RECURSIVE GravityLoop(_, _, _, _, _, _)
GravityLoop(st, direction, remaining, cross_idx, grav_idx, end) ==
    IF st.panicked \/ grav_idx >= end THEN st
    ELSE LET coord == from_gravity(cross_idx, grav_idx, direction, st.size)
         IN  IF ~InRange(st.rocks, coord) THEN Panic(st)
             ELSE GravityLoop(
                      index_mut(st, coord, IF remaining > 0 THEN Round ELSE Empty),
                      direction,
                      IF remaining > 0 THEN remaining - 1 ELSE remaining,
                      cross_idx, grav_idx + 1, end)

\* Platform::_apply_partial_gravity, grav_idxs = start..end
apply_partial_gravity(st, direction, round_rocks, cross_idx, start, end) ==
    GravityLoop(st, direction, round_rocks, cross_idx, start, end)

\* Mutant: the flush at a cube starts from the start of the line.
CubeFlushFromLineStart(st, direction, round_rocks, cross_idx, bottom, grav_idx) ==
    apply_partial_gravity(st, direction, round_rocks, cross_idx, 0, grav_idx)

\* Mutant: the flush takes the inclusive range bottom..=grav_idx.
CubeFlushInclusive(st, direction, round_rocks, cross_idx, bottom, grav_idx) ==
    apply_partial_gravity(st, direction, round_rocks, cross_idx, bottom, grav_idx + 1)

\* The arm Rock::Cube of the match in tilt: flush bottom..grav_idx.
CubeFlush(st, direction, round_rocks, cross_idx, bottom, grav_idx) ==
    apply_partial_gravity(st, direction, round_rocks, cross_idx, bottom, grav_idx)

\* Mutant: the last span is flushed from one cell past its boundary.
FinalFlushSkipsFirst(st, direction, round_rocks, cross_idx, bottom) ==
    apply_partial_gravity(st, direction, round_rocks, cross_idx, bottom + 1, st.size)

\* Mutant: the last span is flushed with one rock too many.
FinalFlushAddsRock(st, direction, round_rocks, cross_idx, bottom) ==
    apply_partial_gravity(st, direction, round_rocks + 1, cross_idx, bottom, st.size)

\* Mutant: the last span is flushed with one rock too few.
FinalFlushDropsRock(st, direction, round_rocks, cross_idx, bottom) ==
    apply_partial_gravity(st, direction,
                          IF round_rocks > 0 THEN round_rocks - 1 ELSE 0,
                          cross_idx, bottom, st.size)

\* The flush after the inner loop: bottom..self.size.
FinalFlush(st, direction, round_rocks, cross_idx, bottom) ==
    apply_partial_gravity(st, direction, round_rocks, cross_idx, bottom, st.size)

\* for grav_idx in 0..self.size { match self[coord] {..} } and the final flush
RECURSIVE ScanLine(_, _, _, _, _, _)
ScanLine(st, direction, cross_idx, grav_idx, round_rocks, bottom) ==
    IF st.panicked THEN st
    ELSE IF grav_idx >= st.size
    THEN FinalFlush(st, direction, round_rocks, cross_idx, bottom)
    ELSE LET coord == from_gravity(cross_idx, grav_idx, direction, st.size)
         IN  IF ~InRange(st.rocks, coord) THEN Panic(st)
             ELSE CASE index(st.rocks, coord) = Round ->
                         ScanLine(st, direction, cross_idx, grav_idx + 1,
                                  round_rocks + 1, bottom)
                    [] index(st.rocks, coord) = Cube ->
                         ScanLine(CubeFlush(st, direction, round_rocks, cross_idx,
                                            bottom, grav_idx),
                                  direction, cross_idx, grav_idx + 1, 0, grav_idx + 1)
                    [] index(st.rocks, coord) = Empty ->
                         ScanLine(st, direction, cross_idx, grav_idx + 1,
                                  round_rocks, bottom)

\* for cross_idx in 0..self.size { .. }
RECURSIVE TiltLines(_, _, _)
TiltLines(st, direction, cross_idx) ==
    IF st.panicked \/ cross_idx >= st.size THEN st
    ELSE TiltLines(ScanLine(st, direction, cross_idx, 0, 0, 0), direction,
                   cross_idx + 1)

\* Platform::tilt, as a step of a tilt state
TiltFrom(st, direction) == TiltLines(st, direction, 0)

\* Mutant: the tilts in the order the enum Direction declares them.
CycleOrderAsDeclared == <<North, East, South, West>>

\* The order of the four tilts in Platform::cycle
CycleOrder == <<North, West, South, East>>

\* Platform::cycle, as a step of a tilt state
CycleFrom(st) ==
    TiltFrom(TiltFrom(TiltFrom(TiltFrom(st, CycleOrder[1]), CycleOrder[2]),
                      CycleOrder[3]), CycleOrder[4])

AsPlatform(st) == [rocks |-> st.rocks, size |-> st.size]

\* Platform::tilt and Platform::cycle as functions of the platform (the
\* result is meaningful when the operation did not panic)
tilt(p, direction) == AsPlatform(TiltFrom(TiltState(p), direction))
cycle_once(p) == AsPlatform(CycleFrom(TiltState(p)))

\* Platform::load: (size - ri) for every Round cell of row ri
RECURSIVE RowLoad(_, _, _)
RowLoad(row, weight, k) ==
    IF k > Len(row) THEN 0
    ELSE (IF row[k] = Round THEN weight ELSE 0) + RowLoad(row, weight, k + 1)

RECURSIVE LoadFrom(_, _)
LoadFrom(p, ri) ==
    IF ri >= Len(p.rocks) THEN 0
    ELSE RowLoad(p.rocks[ri + 1], p.size - ri, 1) + LoadFrom(p, ri + 1)

\* Mutant: the weights grow with the row index, row 0 weighing 1.
load_from_south(p) ==
    LET n == Len(p.rocks)
    IN  LoadFrom([p EXCEPT !.rocks = [r \in 1 .. n |-> p.rocks[n + 1 - r]]], 0)

\* The weights counted from zero: the last row would contribute nothing.
load_last_row_zero(p) == LoadFrom([p EXCEPT !.size = @ - 1], 0)

load(p) == LoadFrom(p, 0)

\* ------------------------------------------------------------------ inputs
RECURSIVE UpTo(_, _)
\* The subsets of S with at most k elements.
UpTo(S, k) ==
    IF k = 0 THEN {{}}
    ELSE LET smaller == UpTo(S, k - 1)
         IN  smaller \cup {T \cup {x} : T \in smaller, x \in S}

Cells(n) == (1 .. n) \X (1 .. n)

Grid(n, rounds, cubes) ==
    from_iter([r \in 1 .. n |->
                  [c \in 1 .. n |->
                      IF <<r, c>> \in rounds THEN Round
                      ELSE IF <<r, c>> \in cubes THEN Cube ELSE Empty]])

\* p is a square grid of side up to MaxN with at most maxRound round rocks
\* and at most MaxCube cube rocks: the starting grids of the model.
IsStartingGrid(p, maxRound) ==
    \E n \in 0 .. MaxN :
        \E rounds \in UpTo(Cells(n), maxRound) :
            \E cubes \in UpTo(Cells(n) \ rounds, MaxCube) :
                p = Grid(n, rounds, cubes)

None == [some |-> FALSE]

\* ------------------------------------------------------------------ tilting
SolveIdle ==
    /\ item = None
    /\ iterations = 0
    /\ hasher = "none"
    /\ first_observations = <<>>
    /\ iteration = 0
    /\ cycle = None
    /\ equivalent_iterations = None
    /\ rerun = 0
    /\ pc = "idle"
    /\ result = 0

ParseIdle ==
    /\ text = <<>>
    /\ parsed = None

Init ==
    /\ IsStartingGrid(platform, MaxRound)
    /\ before = platform
    /\ lastOp = "new"
    /\ repeated = FALSE
    /\ writes = {}
    /\ panicked = FALSE
    /\ ParseIdle
    /\ SolveIdle

solveVars == <<item, iterations, hasher, first_observations, iteration, cycle,
               equivalent_iterations, rerun, pc, result>>
parseVars == <<text, parsed>>

\* platform.tilt(direction)
Tilt(direction) ==
    /\ ~panicked
    /\ LET st == TiltFrom(TiltState(platform), direction)
       IN  /\ platform' = AsPlatform(st)
           /\ writes' = st.writes
           /\ panicked' = st.panicked
    /\ before' = platform
    /\ lastOp' = direction
    /\ repeated' = (lastOp = direction)
    /\ UNCHANGED <<solveVars, parseVars>>

TiltNorth == Tilt(North)
TiltEast == Tilt(East)
TiltSouth == Tilt(South)
TiltWest == Tilt(West)

\* platform.cycle()
Cycle ==
    /\ ~panicked
    /\ LET st == CycleFrom(TiltState(platform))
       IN  /\ platform' = AsPlatform(st)
           /\ writes' = st.writes
           /\ panicked' = st.panicked
    /\ before' = platform
    /\ lastOp' = "cycle"
    /\ repeated' = FALSE
    /\ UNCHANGED <<solveVars, parseVars>>

Next == TiltNorth \/ TiltEast \/ TiltSouth \/ TiltWest \/ Cycle

Spec == Init /\ [][Next]_vars

\* ------------------------------------------------------------------ state_hash
\* #[derive(Hash)] on Rock: the discriminant of the variant.
Discriminant(rock) ==
    CASE rock = Round -> 0
      [] rock = Cube  -> 1
      [] rock = Empty -> 2

\* Hash for Vec<Rock>: the length, then every element.
RowWords(row) == <<Len(row)>> \o [k \in 1 .. Len(row) |-> Discriminant(row[k])]

RECURSIVE RowsWords(_, _)
RowsWords(rocks, ri) ==
    IF ri > Len(rocks) THEN <<>>
    ELSE RowWords(rocks[ri]) \o RowsWords(rocks, ri + 1)

\* #[derive(Hash)] on Platform: the words self.hash(&mut hasher) feeds the
\* hasher: the field rocks (length, then every row), then the field size.
HashWords(p) == <<Len(p.rocks)>> \o RowsWords(p.rocks, 1) \o <<p.size>>

RECURSIVE Fold(_, _, _)
Fold(words, k, h) ==
    IF k > Len(words) THEN h
    ELSE Fold(words, k + 1, (h * 3 + words[k]) % (2 ^ NarrowBits))

\* DefaultHasher::finish: a digest of the words written, the same for the same
\* words.  A 64-bit digest of an unbounded input cannot be injective, and the
\* grids here are far smaller than the puzzle's, so the digest comes in two
\* sizes: "exact" tells all the model's grids apart (the words themselves), and
\* "narrow" keeps NarrowBits bits, so that distinct grids can collide.
Finish(h, words) ==
    IF h = "exact" THEN words ELSE Fold(words, 1, 0)

Hashers == {"exact", "narrow"}

\* Mutant: the detector is handed the contents of the grid, not a digest.
state_hash_contents(p) == HashWords(p)

\* Platform::state_hash
state_hash(p) == Finish(hasher, HashWords(p))

\* ------------------------------------------------------------------ Part2::solve
Some(v) == [some |-> TRUE, value |-> v]

\* Mutant: the fingerprint is pushed before the search, which then finds it.
position_including_current(observations, h) ==
    [some |-> TRUE,
     value |-> (CHOOSE k \in 1 .. Len(observations) + 1 :
                   /\ Append(observations, h)[k] = h
                   /\ \A j \in 1 .. k - 1 : observations[j] # h) - 1]

\* Mutant: the search skips the first entry of the log.
position_after_first(observations, h) ==
    IF \E k \in 2 .. Len(observations) : observations[k] = h
    THEN [some |-> TRUE,
          value |-> (CHOOSE k \in 2 .. Len(observations) :
                        /\ observations[k] = h
                        /\ \A j \in 2 .. k - 1 : observations[j] # h) - 1]
    ELSE [some |-> FALSE]

\* first_observations.iter().position(|&h| h == state_hash): the 0-based index
\* of the first equal entry, as an Option.
position(observations, h) ==
    IF \E k \in 1 .. Len(observations) : observations[k] = h
    THEN Some((CHOOSE k \in 1 .. Len(observations) :
                  /\ observations[k] = h
                  /\ \A j \in 1 .. k - 1 : observations[j] # h) - 1)
    ELSE None

\* Mutant: the two fields of the record are exchanged.
CycleRecordSwapped(first, current) == [offset |-> current - first, length |-> first]

\* Mutant: the length is the index of the repetition itself.
CycleRecordFromZero(first, current) == [offset |-> first, length |-> current]

\* Cycle { offset: first, length: iteration - first }
CycleRecord(first, current) == [offset |-> first, length |-> current - first]

\* Mutant: the remainder is taken modulo length + 1.
ProjectInclusive(offset, length, target) ==
    offset + ((target - offset) % (length + 1))

\* Mutant: the offset is added to the remainder of the whole target.
ProjectKeepsTarget(offset, length, target) == offset + (target % length)

\* Mutant: the target is reduced modulo the length without the offset.
ProjectWithoutOffset(offset, length, target) == target % length

\* offset + ((self.iterations - offset) % length)
Project(offset, length, target) == offset + ((target - offset) % length)

\* Mutant: the loop stops only once the count is past the target.
TargetReachedPast(n, target) == n > target

\* Mutant: the loop stops one cycle short of the target.
TargetReachedEarly(n, target) == n + 1 >= target

\* if iteration == self.iterations { break None; }
TargetReached(n, target) == n = target

\* Mutant: the re-run goes on from the platform the detection loop left.
RerunStartAccumulated(input, accumulated) == accumulated

\* let mut platform = Platform::clone(item): the platform of the re-run, a
\* new binding that shadows the one of the detection loop.
RerunStart(input, accumulated) == input

SolveInit ==
    /\ IsStartingGrid(item, MaxSolveRound)
    /\ iterations \in 0 .. MaxT
    /\ hasher \in Hashers
    /\ platform = item
    /\ before = item
    /\ lastOp = "new"
    /\ repeated = FALSE
    /\ writes = {}
    /\ panicked = FALSE
    /\ first_observations = <<>>
    /\ iteration = 0
    /\ cycle = None
    /\ equivalent_iterations = None
    /\ rerun = 0
    /\ pc = "loop"
    /\ result = 0
    /\ ParseIdle

\* platform.cycle() inside solve
SolveCycle ==
    LET st == CycleFrom(TiltState(platform))
    IN  /\ platform' = AsPlatform(st)
        /\ writes' = st.writes
        /\ panicked' = st.panicked
        /\ before' = platform
        /\ lastOp' = "cycle"
        /\ repeated' = FALSE

tiltVars == <<platform, before, lastOp, repeated, writes, panicked>>

\* The loop reached the target: break None, and the arm None of the match
\* returns the load of the accumulated platform.
LoopBreakNone ==
    /\ pc = "loop"
    /\ ~panicked
    /\ TargetReached(iteration, iterations)
    /\ cycle' = None
    /\ result' = load(platform)
    /\ pc' = "done"
    /\ UNCHANGED <<tiltVars, parseVars, item, iterations, hasher,
                   first_observations, iteration, equivalent_iterations, rerun>>

\* The fingerprint of the current platform was observed before: break
\* Some(cycle); the arm Some of the match projects the target and clones the
\* input for the re-run.
LoopBreakSome ==
    /\ pc = "loop"
    /\ ~panicked
    /\ ~TargetReached(iteration, iterations)
    /\ position(first_observations, state_hash(platform)).some
    /\ LET first == position(first_observations, state_hash(platform)).value
           found == CycleRecord(first, iteration)
       IN  /\ cycle' = [some |-> TRUE, offset |-> found.offset,
                        length |-> found.length]
           /\ IF iterations < found.offset \/ found.length = 0
              THEN \* self.iterations - offset overflows usize (a panic in a
                   \* debug build) or the remainder is by zero (a panic)
                   /\ panicked' = TRUE
                   /\ equivalent_iterations' = None
                   /\ pc' = "done"
                   /\ UNCHANGED <<platform, before, lastOp, repeated, writes>>
              ELSE /\ equivalent_iterations' =
                          Some(Project(found.offset, found.length, iterations))
                   /\ platform' = RerunStart(item, platform)
                   /\ before' = RerunStart(item, platform)
                   /\ lastOp' = "new"
                   /\ repeated' = FALSE
                   /\ writes' = {}
                   /\ panicked' = FALSE
                   /\ pc' = "rerun"
    /\ UNCHANGED <<parseVars, item, iterations, hasher, first_observations,
                   iteration, rerun, result>>

\* A new fingerprint: record it, apply one cycle, count it.
LoopStep ==
    /\ pc = "loop"
    /\ ~panicked
    /\ ~TargetReached(iteration, iterations)
    /\ ~position(first_observations, state_hash(platform)).some
    /\ first_observations' = Append(first_observations, state_hash(platform))
    /\ SolveCycle
    /\ iteration' = iteration + 1
    /\ UNCHANGED <<parseVars, item, iterations, hasher, cycle,
                   equivalent_iterations, rerun, pc, result>>

\* for _ in 0..equivalent_iterations { platform.cycle(); }
RerunStep ==
    /\ pc = "rerun"
    /\ ~panicked
    /\ rerun < equivalent_iterations.value
    /\ SolveCycle
    /\ rerun' = rerun + 1
    /\ UNCHANGED <<parseVars, item, iterations, hasher, first_observations,
                   iteration, cycle, equivalent_iterations, pc, result>>

\* The re-run is over: final_platform.load()
RerunDone ==
    /\ pc = "rerun"
    /\ ~panicked
    /\ rerun >= equivalent_iterations.value
    /\ result' = load(platform)
    /\ pc' = "done"
    /\ UNCHANGED <<tiltVars, parseVars, item, iterations, hasher,
                   first_observations, iteration, cycle, equivalent_iterations,
                   rerun>>

SolveNext == LoopBreakNone \/ LoopBreakSome \/ LoopStep \/ RerunStep \/ RerunDone

SolveSpec == SolveInit /\ [][SolveNext]_vars

\* ------------------------------------------------------------------ from_str
Ok(v) == [ok |-> TRUE, value |-> v]
Err(e) == [ok |-> FALSE, error |-> e]

\* Day14Error::InvalidRock
InvalidRock == "InvalidRock"

\* The characters of the model's texts: the three rock symbols, a character
\* that is none of them, and two white-space characters.
Whitespace == {"\n", " "}
Chars == {"O", "#", ".", "x"} \cup Whitespace

\* Mutant: a character that is no rock symbol is read as an empty cell.
try_from_lenient(value) ==
    CASE value = "O" -> Ok(Round)
      [] value = "#" -> Ok(Cube)
      [] OTHER -> Ok(Empty)

\* TryFrom<char> for Rock
try_from(value) ==
    CASE value = "O" -> Ok(Round)
      [] value = "#" -> Ok(Cube)
      [] value = "." -> Ok(Empty)
      [] OTHER -> Err(InvalidRock)

\* str::split_whitespace: the maximal runs of characters that are not white
\* space, in order.
RECURSIVE SplitFrom(_, _, _, _)
SplitFrom(s, k, word, words) ==
    IF k > Len(s)
    THEN IF word = <<>> THEN words ELSE Append(words, word)
    ELSE IF s[k] \in Whitespace
    THEN SplitFrom(s, k + 1, <<>>,
                   IF word = <<>> THEN words ELSE Append(words, word))
    ELSE SplitFrom(s, k + 1, Append(word, s[k]), words)

split_whitespace(s) == SplitFrom(s, 1, <<>>, <<>>)

\* line.chars().map(|c| Rock::try_from(c)).collect::<Result<Vec<Rock>, _>>():
\* the first Err ends the collection and is the result.
RECURSIVE CollectRocks(_, _, _)
CollectRocks(line, k, rocks) ==
    IF k > Len(line) THEN Ok(rocks)
    ELSE IF try_from(line[k]).ok
    THEN CollectRocks(line, k + 1, Append(rocks, try_from(line[k]).value))
    ELSE Err(try_from(line[k]).error)

\* .collect() into Result<Platform, Day14Error>: the rows up to the first Err
\* are dropped with it; without an Err the rows go to Platform::from_iter.
RECURSIVE CollectRows(_, _, _)
CollectRows(lines, k, rows) ==
    IF k > Len(lines) THEN Ok(from_iter(rows))
    ELSE IF CollectRocks(lines[k], 1, <<>>).ok
    THEN CollectRows(lines, k + 1, Append(rows, CollectRocks(lines[k], 1, <<>>).value))
    ELSE Err(CollectRocks(lines[k], 1, <<>>).error)

\* FromStr for Platform
from_str(s) == CollectRows(split_whitespace(s), 1, <<>>)

RECURSIVE TextsOfLen(_)
TextsOfLen(n) ==
    IF n = 0 THEN {<<>>}
    ELSE {Append(t, c) : t \in TextsOfLen(n - 1), c \in Chars}

\* The input texts of the model.
Texts == UNION {TextsOfLen(n) : n \in 0 .. MaxLen}

ParseInit ==
    /\ text \in Texts
    /\ parsed = None
    /\ platform = from_iter(<<>>)
    /\ before = platform
    /\ lastOp = "new"
    /\ repeated = FALSE
    /\ writes = {}
    /\ panicked = FALSE
    /\ SolveIdle

\* text.parse::<Platform>()
FromStr ==
    /\ ~parsed.some
    /\ parsed' = Some(from_str(text))
    /\ UNCHANGED <<text, tiltVars, solveVars>>

ParseNext == FromStr

ParseSpec == ParseInit /\ [][ParseNext]_vars

\* ------------------------------------------------------------------ claims
\* The coordinates (1-based) of the cells of p holding `kind`.
CellsOf(p, kind) ==
    {rc \in UNION {{<<r, c>> : c \in 1 .. Len(p.rocks[r])} : r \in 1 .. Len(p.rocks)} :
        p.rocks[rc[1]][rc[2]] = kind}

CountOf(p, kind) == Cardinality(CellsOf(p, kind))

\* C2: the number of Round cells is the same before and after every tilt, in
\* each of the four directions, and before and after every cycle.
C2_RoundCountConserved ==
    lastOp # "new" => CountOf(platform, Round) = CountOf(before, Round)

C2_Witness ==
    /\ lastOp \in Direction \cup {"cycle"}
    /\ platform # before
    /\ CountOf(before, Round) >= 2
    /\ CountOf(before, Cube) >= 1

\* Gravity one step at a time: the neighbour of a cell toward the pulling edge.
Toward(rc, direction) ==
    CASE direction = North -> <<rc[1] - 1, rc[2]>>
      [] direction = South -> <<rc[1] + 1, rc[2]>>
      [] direction = West  -> <<rc[1], rc[2] - 1>>
      [] direction = East  -> <<rc[1], rc[2] + 1>>

\* The Round cells of a grid that can move one step toward `direction`.
Movable(rocks, n, direction) ==
    {rc \in Cells(n) :
        /\ rocks[rc[1]][rc[2]] = Round
        /\ Toward(rc, direction) \in Cells(n)
        /\ rocks[Toward(rc, direction)[1]][Toward(rc, direction)[2]] = Empty}

MoveOne(rocks, rc, direction) ==
    [[rocks EXCEPT ![rc[1]][rc[2]] = Empty]
        EXCEPT ![Toward(rc, direction)[1]][Toward(rc, direction)[2]] = Round]

\* Every grid reachable from the grids of S by single moves, in any order.
RECURSIVE MoveClosure(_, _, _)
MoveClosure(S, n, direction) ==
    LET more == S \cup UNION {{MoveOne(g, rc, direction) :
                                   rc \in Movable(g, n, direction)} : g \in S}
    IN  IF more = S THEN S ELSE MoveClosure(more, n, direction)

\* The grids in which nothing can move any more.
Fixpoints(rocks, n, direction) ==
    {g \in MoveClosure({rocks}, n, direction) : Movable(g, n, direction) = {}}

\* C3: a tilt yields the stable result of gravity: whatever the order of the
\* single moves, moving Round cells one step toward the direction into an
\* adjacent Empty cell until none can move ends in the grid the tilt produced.
C3_TiltIsGravityFixpoint ==
    lastOp \in Direction =>
        /\ ~panicked
        /\ Fixpoints(before.rocks, before.size, lastOp) = {platform.rocks}

\* A rock slid two cells south in one tilt.
C3_Witness ==
    /\ lastOp = South
    /\ before.size = 3
    /\ before.rocks[1][1] = Round
    /\ before.rocks[2][1] = Empty
    /\ before.rocks[3][1] = Empty
    /\ platform.rocks[3][1] = Round
    /\ platform.rocks[1][1] = Empty

\* C4: a tilt that repeats the direction of the tilt just before it leaves the
\* grid as it is.
C4_TiltIdempotent ==
    repeated => platform = before

C4_Witness ==
    /\ repeated
    /\ lastOp = West
    /\ CountOf(platform, Round) >= 2
    /\ CountOf(platform, Cube) >= 1

\* C5: every tilt and cycle leaves the Cube cells where they are, and never
\* stores Round into a cell that holds Cube.
C5_CubesStay ==
    lastOp # "new" =>
        /\ CellsOf(platform, Cube) = CellsOf(before, Cube)
        /\ \A w \in writes : ~(w.old = Cube /\ w.new = Round)

\* A round rock was packed against a cube.
C5_Witness ==
    /\ lastOp = East
    /\ \E w \in writes :
          /\ w.new = Round
          /\ w.old = Empty
          /\ <<w.row + 1, w.col + 2>> \in CellsOf(platform, Cube)

\* C6: one cycle is the tilts North, West, South, East in that order, and
\* nothing else.
C6_CycleIsNWSE ==
    lastOp = "cycle" =>
        /\ ~panicked
        /\ platform = tilt(tilt(tilt(tilt(before, North), West), South), East)

\* A cycle whose result depends on the order of the tilts.
C6_Witness ==
    /\ lastOp = "cycle"
    /\ platform # tilt(tilt(tilt(tilt(before, North), East), South), West)

\* The grids after 0, 1, .., k literal cycles from p.
RECURSIVE Orbit(_, _)
Orbit(p, k) ==
    IF k = 0 THEN <<p>> ELSE <<p>> \o Orbit(cycle_once(p), k - 1)

\* The grid after k literal cycles from p.
CycleTimes(p, k) == Orbit(p, k)[k + 1]

\* The fingerprint tells apart the grids the detector has visited: two of them
\* with the same fingerprint are the same grid.
DistinguishesVisited ==
    LET orbit == Orbit(item, iteration)
    IN  \A i, j \in 1 .. iteration + 1 :
            Finish(hasher, HashWords(orbit[i])) = Finish(hasher, HashWords(orbit[j]))
                => orbit[i] = orbit[j]

\* C1: with a fingerprint that tells the visited grids apart, solve returns
\* the load of the grid that T literal cycles produce from the starting grid,
\* whether or not it took the projection shortcut.
C1_SolveEqualsLiteralCycles ==
    (pc = "done" /\ DistinguishesVisited) =>
        /\ ~panicked
        /\ result = load(CycleTimes(item, iterations))

\* The shortcut was taken and saved cycles on a grid with a period above 1.
C1_Witness ==
    /\ pc = "done"
    /\ DistinguishesVisited
    /\ cycle.some
    /\ cycle.length >= 2
    /\ equivalent_iterations.value < iterations
    /\ result # load(item)

\* C7: when the loop reaches the target without a repeated fingerprint (T = 0
\* included), solve returns the load of the grid after exactly T literal
\* cycles, and projects nothing: no projected count, no re-run.
C7_NoRepetitionIsLiteral ==
    (pc = "done" /\ ~cycle.some) =>
        /\ ~panicked
        /\ iteration = iterations
        /\ Len(first_observations) = iterations
        /\ ~equivalent_iterations.some
        /\ rerun = 0
        /\ platform = CycleTimes(item, iterations)
        /\ result = load(CycleTimes(item, iterations))

C7_Witness ==
    /\ pc = "done"
    /\ ~cycle.some
    /\ iterations >= 2
    /\ platform # item
    /\ result # load(item)

\* The same with a target of zero: no cycle at all is applied.
C7_WitnessZero ==
    /\ pc = "done"
    /\ iterations = 0
    /\ ~cycle.some
    /\ result > 0

\* The states under repeated cycling are periodic from index offset with
\* period length, as far as one period past the target.
PeriodicFrom(offset, length) ==
    LET orbit == Orbit(item, iterations + length)
    IN  \A k \in offset .. iterations + length :
            orbit[k + 1] = orbit[offset + ((k - offset) % length) + 1]

RockSymbols == {"O", "#", "."}

\* The characters of the text that are not white space, in order.
RECURSIVE Visible(_, _)
Visible(s, k) ==
    IF k > Len(s) THEN <<>>
    ELSE (IF s[k] \in Whitespace THEN <<>> ELSE <<s[k]>>) \o Visible(s, k + 1)

\* The positions of the text where a line starts.
LineStarts(s) ==
    {k \in 1 .. Len(s) : s[k] \notin Whitespace /\ (k = 1 \/ s[k - 1] \in Whitespace)}

\* The cells of a grid, row after row.
RECURSIVE Flat(_, _)
Flat(rocks, ri) ==
    IF ri > Len(rocks) THEN <<>> ELSE rocks[ri] \o Flat(rocks, ri + 1)

SymbolRock(c) ==
    CASE c = "O" -> Round
      [] c = "#" -> Cube
      [] c = "." -> Empty

\* C9: a text with a character that is neither a rock symbol nor white space
\* parses to the error InvalidRock, which carries no grid; a text over the
\* three rock symbols (and white space between the lines) parses to a
\* platform with one row per line and 'O' -> Round, '#' -> Cube, '.' -> Empty.
C9_ParseRejectsOtherCharacters ==
    parsed.some =>
        IF \E k \in 1 .. Len(text) : text[k] \notin RockSymbols \cup Whitespace
        THEN parsed.value = [ok |-> FALSE, error |-> InvalidRock]
        ELSE /\ parsed.value.ok
             /\ DOMAIN parsed.value = {"ok", "value"}
             /\ parsed.value.value.size = Cardinality(LineStarts(text))
             /\ Len(parsed.value.value.rocks) = Cardinality(LineStarts(text))
             /\ Flat(parsed.value.value.rocks, 1) =
                    [k \in 1 .. Len(Visible(text, 1)) |-> SymbolRock(Visible(text, 1)[k])]

\* Two good lines, then a bad character: the rows read so far are dropped.
C9_Witness ==
    /\ parsed.some
    /\ ~parsed.value.ok
    /\ Len(text) = 5
    /\ text[1] = "O"
    /\ text[2] = "\n"
    /\ text[3] = "#"
    /\ text[4] = " "
    /\ text[5] = "x"

\* C10 as stated: a text whose lines are not all of the same length does not
\* parse to a platform: every platform that from_str returns has rows of one
\* length.
C10_ParseRejectsRagged ==
    (parsed.some /\ parsed.value.ok) =>
        \A i, j \in 1 .. Len(parsed.value.value.rocks) :
            Len(parsed.value.value.rocks[i]) = Len(parsed.value.value.rocks[j])

\* ------------------------------------------------------------------ C11
RECURSIVE SumOver(_, _)
\* The sum of size - row_index over a set of cells (rows counted from 1 here,
\* from 0 in the program).
SumOver(cells, size) ==
    IF cells = {} THEN 0
    ELSE LET rc == CHOOSE x \in cells : TRUE
         IN  (size - (rc[1] - 1)) + SumOver(cells \ {rc}, size)

\* C11: the load solve returns is the sum, over the Round cells of the grid
\* it scored, of N - row_index: every Round cell of row 0 contributes N, every
\* Round cell of the last row contributes 1, Cube and Empty cells nothing.
C11_LoadIsWeightedRoundSum ==
    (pc = "done" /\ ~panicked) =>
        /\ result = SumOver(CellsOf(platform, Round), platform.size)
        /\ result = platform.size * Cardinality({rc \in CellsOf(platform, Round) : rc[1] = 1})
                    + SumOver({rc \in CellsOf(platform, Round) : rc[1] > 1}, platform.size)
        /\ (\A rc \in CellsOf(platform, Round) : rc[1] = platform.size) =>
               result = CountOf(platform, Round)

\* A scored grid with a cube and round rocks in its first and in its last row.
C11_Witness ==
    /\ pc = "done"
    /\ ~panicked
    /\ platform.size = MaxN
    /\ CountOf(platform, Cube) = 1
    /\ \E a, b \in CellsOf(platform, Round) : a[1] = 1 /\ b[1] = platform.size
    /\ result = platform.size + 1

\* ------------------------------------------------------------------ fixtures
\* The grids the tests of the program write out as string literals: the sample
\* grid tilted once in each direction, and the sample grid after one cycle.
\* Each literal is given as the lines split_whitespace yields for it, and is
\* parsed as from_str parses those lines.

test_tilt_north_text ==
    <<<<"O", "O", "O", "O", ".", "#", ".", "O", ".", ".">>,
      <<"O", "O", ".", ".", "#", ".", ".", ".", ".", "#">>,
      <<"O", "O", ".", ".", "O", "#", "#", ".", ".", "O">>,
      <<"O", ".", ".", "#", ".", "O", "O", ".", ".", ".">>,
      <<".", ".", ".", ".", ".", ".", ".", ".", "#", ".">>,
      <<".", ".", "#", ".", ".", ".", ".", "#", ".", "#">>,
      <<".", ".", "O", ".", ".", "#", ".", "O", ".", "O">>,
      <<".", ".", "O", ".", ".", ".", ".", ".", ".", ".">>,
      <<"#", ".", ".", ".", ".", "#", "#", "#", ".", ".">>,
      <<"#", ".", ".", ".", ".", "#", ".", ".", ".", ".">>>>

\* `tilted` of test_tilt_north
test_tilt_north_tilted == CollectRows(test_tilt_north_text, 1, <<>>).value

test_tilt_west_text ==
    <<<<"O", ".", ".", ".", ".", "#", ".", ".", ".", ".">>,
      <<"O", "O", "O", ".", "#", ".", ".", ".", ".", "#">>,
      <<".", ".", ".", ".", ".", "#", "#", ".", ".", ".">>,
      <<"O", "O", ".", "#", "O", "O", ".", ".", ".", ".">>,
      <<"O", "O", ".", ".", ".", ".", ".", ".", "#", ".">>,
      <<"O", ".", "#", "O", ".", ".", ".", "#", ".", "#">>,
      <<"O", ".", ".", ".", ".", "#", "O", "O", ".", ".">>,
      <<"O", ".", ".", ".", ".", ".", ".", ".", ".", ".">>,
      <<"#", ".", ".", ".", ".", "#", "#", "#", ".", ".">>,
      <<"#", "O", "O", ".", ".", "#", ".", ".", ".", ".">>>>

\* `tilted` of test_tilt_west
test_tilt_west_tilted == CollectRows(test_tilt_west_text, 1, <<>>).value

test_tilt_south_text ==
    <<<<".", ".", ".", ".", ".", "#", ".", ".", ".", ".">>,
      <<".", ".", ".", ".", "#", ".", ".", ".", ".", "#">>,
      <<".", ".", ".", "O", ".", "#", "#", ".", ".", ".">>,
      <<".", ".", ".", "#", ".", ".", ".", ".", ".", ".">>,
      <<"O", ".", "O", ".", ".", ".", ".", "O", "#", "O">>,
      <<"O", ".", "#", ".", ".", "O", ".", "#", ".", "#">>,
      <<"O", ".", ".", ".", ".", "#", ".", ".", ".", ".">>,
      <<"O", "O", ".", ".", ".", ".", "O", "O", ".", ".">>,
      <<"#", "O", "O", ".", ".", "#", "#", "#", ".", ".">>,
      <<"#", "O", "O", ".", "O", "#", ".", ".", ".", "O">>>>

\* `tilted` of test_tilt_south
test_tilt_south_tilted == CollectRows(test_tilt_south_text, 1, <<>>).value

test_tilt_east_text ==
    <<<<".", ".", ".", ".", "O", "#", ".", ".", ".", ".">>,
      <<".", "O", "O", "O", "#", ".", ".", ".", ".", "#">>,
      <<".", ".", ".", ".", ".", "#", "#", ".", ".", ".">>,
      <<".", "O", "O", "#", ".", ".", ".", ".", "O", "O">>,
      <<".", ".", ".", ".", ".", ".", "O", "O", "#", ".">>,
      <<".", "O", "#", ".", ".", ".", "O", "#", ".", "#">>,
      <<".", ".", ".", ".", "O", "#", ".", ".", "O", "O">>,
      <<".", ".", ".", ".", ".", ".", ".", ".", ".", "O">>,
      <<"#", ".", ".", ".", ".", "#", "#", "#", ".", ".">>,
      <<"#", ".", ".", "O", "O", "#", ".", ".", ".", ".">>>>

\* `tilted` of test_tilt_east
test_tilt_east_tilted == CollectRows(test_tilt_east_text, 1, <<>>).value

test_cycle_text ==
    <<<<".", ".", ".", ".", ".", "#", ".", ".", ".", ".">>,
      <<".", ".", ".", ".", "#", ".", ".", ".", "O", "#">>,
      <<".", ".", ".", "O", "O", "#", "#", ".", ".", ".">>,
      <<".", "O", "O", "#", ".", ".", ".", ".", ".", ".">>,
      <<".", ".", ".", ".", ".", "O", "O", "O", "#", ".">>,
      <<".", "O", "#", ".", ".", ".", "O", "#", ".", "#">>,
      <<".", ".", ".", ".", "O", "#", ".", ".", ".", ".">>,
      <<".", ".", ".", ".", ".", ".", "O", "O", "O", "O">>,
      <<"#", ".", ".", ".", "O", "#", "#", "#", ".", ".">>,
      <<"#", ".", ".", "O", "O", "#", ".", ".", ".", ".">>>>

\* `cycled` of test_cycle
test_cycle_cycled == CollectRows(test_cycle_text, 1, <<>>).value

Fixtures ==
    {test_tilt_north_tilted, test_tilt_west_tilted, test_tilt_south_tilted,
     test_tilt_east_tilted, test_cycle_cycled}

\* ------------------------------------------------------------------ Part1
\* The answers the tests assert for the sample grid.
test_part1_expected == 136
test_part2_expected == 64

Part1DirectionSouth == South

\* The direction Part1::solve tilts to.
Part1Direction == North

\* Part1.solve(&item) is called on a starting grid of the model or on a grid
\* of the tests.
Part1Init ==
    /\ \/ IsStartingGrid(item, MaxRound)
       \/ item \in Fixtures
    /\ platform = item
    /\ before = item
    /\ lastOp = "new"
    /\ repeated = FALSE
    /\ writes = {}
    /\ panicked = FALSE
    /\ iterations = 0
    /\ hasher = "none"
    /\ first_observations = <<>>
    /\ iteration = 0
    /\ cycle = None
    /\ equivalent_iterations = None
    /\ rerun = 0
    /\ pc = "part1"
    /\ result = 0
    /\ ParseIdle

\* Part1::solve: clone the input, tilt the clone once, return its load.
Part1Solve ==
    /\ pc = "part1"
    /\ LET st == TiltFrom(TiltState(item), Part1Direction)
       IN  /\ platform' = AsPlatform(st)
           /\ writes' = st.writes
           /\ panicked' = st.panicked
           /\ result' = IF st.panicked THEN 0 ELSE load(AsPlatform(st))
    /\ before' = item
    /\ lastOp' = Part1Direction
    /\ repeated' = FALSE
    /\ pc' = "done"
    /\ UNCHANGED <<item, iterations, hasher, first_observations, iteration,
                   cycle, equivalent_iterations, rerun, parseVars>>

Part1Next == Part1Solve

Part1Spec == Part1Init /\ [][Part1Next]_vars

\* ------------------------------------------------------------------ C12
\* C12: Part1::solve(g) is the load of g tilted North exactly once, for every
\* g; and on a grid whose north-tilted layout is the grid written out in
\* test_tilt_north, as the sample grid's is, the result is 136.
C12_Part1IsLoadOfNorthTilt ==
    pc = "done" =>
        /\ ~panicked
        /\ before = item
        /\ platform = tilt(item, North)
        /\ result = SumOver(CellsOf(platform, Round), platform.size)
        /\ result = load(tilt(item, North))
        /\ platform = test_tilt_north_tilted => result = test_part1_expected

\* Part1::solve returned 136 from the north-tilted layout of the sample grid.
C12_Witness ==
    /\ pc = "done"
    /\ platform = test_tilt_north_tilted
    /\ result = test_part1_expected

\* Part1::solve returned the load of a grid that the tilt changed.
C12_WitnessMoved ==
    /\ pc = "done"
    /\ item \notin Fixtures
    /\ platform # item
    /\ result > load(item)
    /\ CountOf(item, Cube) = 1

\* ------------------------------------------------------------------ part2
\* Part2::new(1_000_000_000) in DailyChallenge::part2
Part2Iterations == 1000000000

\* solve is called on one of the grids of the tests, with a target that is
\* small or that is within MaxT of the target of part2. The 64-bit digest
\* tells the grids of the sample's orbit apart (test_part2 passes), so the
\* digest is the exact one here.
FixtureInit ==
    /\ item \in Fixtures
    /\ iterations \in (0 .. MaxT) \cup ((Part2Iterations - MaxT) .. Part2Iterations)
    /\ hasher = "exact"
    /\ platform = item
    /\ before = item
    /\ lastOp = "new"
    /\ repeated = FALSE
    /\ writes = {}
    /\ panicked = FALSE
    /\ first_observations = <<>>
    /\ iteration = 0
    /\ cycle = None
    /\ equivalent_iterations = None
    /\ rerun = 0
    /\ pc = "loop"
    /\ result = 0
    /\ ParseIdle

FixtureSpec == FixtureInit /\ [][SolveNext]_vars

\* ------------------------------------------------------------------ C13
\* C13: on a grid whose state after one cycle is the grid written out in
\* test_cycle, as the sample grid's is, solve with a target of 1,000,000,000
\* returns 64 through the projection, having simulated a small number of
\* cycles: offset + length to find the repetition and fewer than that again
\* in the re-run, 20 at most. The fingerprint is taken to tell apart the
\* grids visited, as the 64-bit digest does on this input.
C13_SampleBillionIs64 ==
    (/\ pc = "done"
     /\ iterations = Part2Iterations
     /\ cycle_once(item) = test_cycle_cycled
     /\ DistinguishesVisited) =>
        /\ ~panicked
        /\ cycle.some
        /\ equivalent_iterations.some
        /\ result = test_part2_expected
        /\ iteration = cycle.offset + cycle.length
        /\ rerun = equivalent_iterations.value
        /\ rerun < cycle.offset + cycle.length
        /\ iteration + rerun <= 20

\* The billion-cycle solve returned 64 on such a grid after 16 cycles in all.
C13_Witness ==
    /\ pc = "done"
    /\ iterations = Part2Iterations
    /\ cycle_once(item) = test_cycle_cycled
    /\ DistinguishesVisited
    /\ result = test_part2_expected
    /\ cycle.length = 7
    /\ iteration + rerun = 16

\* ------------------------------------------------------------------ large targets
\* solve is called on a starting grid of the model with a target of zero or
\* a target within MaxT of the target of part2.
LargeInit ==
    /\ IsStartingGrid(item, MaxSolveRound)
    /\ iterations \in {0} \cup ((Part2Iterations - MaxT) .. Part2Iterations)
    /\ hasher \in Hashers
    /\ platform = item
    /\ before = item
    /\ lastOp = "new"
    /\ repeated = FALSE
    /\ writes = {}
    /\ panicked = FALSE
    /\ first_observations = <<>>
    /\ iteration = 0
    /\ cycle = None
    /\ equivalent_iterations = None
    /\ rerun = 0
    /\ pc = "loop"
    /\ result = 0
    /\ ParseIdle

LargeSpec == LargeInit /\ [][SolveNext]_vars

\* ------------------------------------------------------------------ C14
\* C14: the projected count lies in [offset, offset + length) and differs from
\* the target by a multiple of length; the re-run never applies more cycles
\* than the projected count, so fewer than offset + length, with targets
\* around 1,000,000,000 as with any other.
C14_ProjectionInWindow ==
    equivalent_iterations.some =>
        /\ cycle.some
        /\ cycle.offset <= equivalent_iterations.value
        /\ equivalent_iterations.value < cycle.offset + cycle.length
        /\ (iterations - equivalent_iterations.value) % cycle.length = 0
        /\ rerun <= equivalent_iterations.value
        /\ rerun < cycle.offset + cycle.length
        /\ pc = "done" => rerun = equivalent_iterations.value

\* A target near 1,000,000,000 was projected onto the last index of the
\* window of a record with a positive offset and a length above 1, and re-run.
C14_Witness ==
    /\ pc = "done"
    /\ iterations >= Part2Iterations - MaxT
    /\ cycle.some
    /\ cycle.offset >= 1
    /\ cycle.length >= 2
    /\ equivalent_iterations.value = cycle.offset + cycle.length - 1
    /\ rerun = equivalent_iterations.value

\* ------------------------------------------------------------------ C15
\* The cells of an N x N grid, as coordinates counted from 0.
Coords(n) == {[row |-> r, col |-> c] : r \in 0 .. n - 1, c \in 0 .. n - 1}

\* The indices 0..N of either axis, in pairs <<cross_idx, grav_idx>>.
IndexPairs(n) == (0 .. n - 1) \X (0 .. n - 1)

\* C15: for the direction just tilted to and the size N of the grid,
\* from_gravity maps the N * N pairs (cross_idx, grav_idx) one-to-one onto
\* the cells of the grid: the two loops of tilt meet every cell exactly once.
C15_FromGravityIsBijection ==
    lastOp \in Direction =>
        LET n == platform.size
            image == {from_gravity(ix[1], ix[2], lastOp, n) : ix \in IndexPairs(n)}
        IN  /\ image = Coords(n)
            /\ \A a, b \in IndexPairs(n) :
                   from_gravity(a[1], a[2], lastOp, n) = from_gravity(b[1], b[2], lastOp, n)
                       => a = b
            /\ Cardinality(image) = n * n

\* An east tilt moved a rock on a grid of the largest side.
C15_Witness ==
    /\ lastOp = East
    /\ platform.size = MaxN
    /\ platform # before
    /\ Cardinality({from_gravity(ix[1], ix[2], East, MaxN) : ix \in IndexPairs(MaxN)})
           = MaxN * MaxN

\* ------------------------------------------------------------------ C16
\* The line and the position in it of a coordinate, as a cell counted from 1.
AsCell(coord) == <<coord.row + 1, coord.col + 1>>

\* C16: gravity index 0 is the edge the rocks are pulled to (row 0 for North,
\* row N-1 for South, column 0 for West, column N-1 for East), and raising
\* the gravity index by one moves one cell away from that edge in the same
\* line: the cell of index g is the neighbour, toward the direction, of the
\* cell of index g + 1.
C16_GravityIndexCountsFromEdge ==
    lastOp \in Direction =>
        LET n == platform.size
        IN  \A c \in 0 .. n - 1 :
                /\ LET edge == from_gravity(c, 0, lastOp, n)
                   IN  CASE lastOp = North -> edge = [row |-> 0, col |-> c]
                         [] lastOp = South -> edge = [row |-> n - 1, col |-> c]
                         [] lastOp = West  -> edge = [row |-> c, col |-> 0]
                         [] lastOp = East  -> edge = [row |-> c, col |-> n - 1]
                /\ \A g \in 0 .. n - 2 :
                       Toward(AsCell(from_gravity(c, g + 1, lastOp, n)), lastOp)
                           = AsCell(from_gravity(c, g, lastOp, n))

\* A west tilt slid a lone rock of the last column to column 0, the cell of
\* gravity index 0 in its row.
C16_Witness ==
    /\ lastOp = West
    /\ platform.size = MaxN
    /\ CountOf(before, Round) = 1
    /\ CountOf(before, Cube) = 0
    /\ \E r \in 1 .. MaxN :
           /\ before.rocks[r][MaxN] = Round
           /\ platform.rocks[r][1] = Round
           /\ from_gravity(r - 1, 0, West, MaxN) = [row |-> r - 1, col |-> 0]

\* ------------------------------------------------------------------ C17
\* C17: a grid without a Round cell is left unchanged by every tilt and by a
\* cycle: every store rewrites the value the cell had, and the load of the
\* grid is 0 afterwards.
C17_NoRoundRocksNothingMoves ==
    (lastOp # "new" /\ CountOf(before, Round) = 0) =>
        /\ ~panicked
        /\ platform = before
        /\ \A w \in writes : w.old = w.new /\ w.new = Empty
        /\ load(platform) = 0

\* A tilt went over a grid of the largest side that holds a cube and no round
\* rock, and stored into it.
C17_Witness ==
    /\ lastOp \in Direction
    /\ CountOf(before, Round) = 0
    /\ CountOf(before, Cube) = 1
    /\ before.size = MaxN
    /\ writes # {}
    /\ platform = before

\* The same for a cycle.
C17_WitnessCycle ==
    /\ lastOp = "cycle"
    /\ CountOf(before, Round) = 0
    /\ CountOf(before, Cube) = 1
    /\ before.size = MaxN
    /\ platform = before

\* ------------------------------------------------------------------ C18
\* The number of Round cells in column c of a grid.
RoundsInColumn(p, c) ==
    Cardinality({r \in 1 .. Len(p.rocks) : p.rocks[r][c] = Round})

\* C18: on a grid without a Cube cell, a North tilt leaves every column with
\* its K round rocks in the first K rows and Empty cells below them, K being
\* the number of round rocks the column had.
C18_NoCubesNorthPacksColumns ==
    (lastOp = North /\ CountOf(before, Cube) = 0) =>
        /\ ~panicked
        /\ \A c \in 1 .. before.size :
               \A r \in 1 .. before.size :
                   platform.rocks[r][c] =
                       IF r <= RoundsInColumn(before, c) THEN Round ELSE Empty

\* A North tilt packed two rocks of the two lower rows of a column to its top.
C18_Witness ==
    /\ lastOp = North
    /\ CountOf(before, Cube) = 0
    /\ before.size = MaxN
    /\ \E c \in 1 .. MaxN :
           /\ before.rocks[1][c] = Empty
           /\ before.rocks[MaxN - 1][c] = Round
           /\ before.rocks[MaxN][c] = Round
           /\ RoundsInColumn(before, c) = 2
           /\ platform.rocks[1][c] = Round
           /\ platform.rocks[2][c] = Round
           /\ platform.rocks[MaxN][c] = Empty

\* ------------------------------------------------------------------ C20
\* The fingerprints of a sequence of grids.
Fingerprints(orbit) ==
    [i \in 1 .. Len(orbit) |-> Finish(hasher, HashWords(orbit[i]))]

\* The fingerprint at index j (from 0) repeats one at an earlier index.
RepeatsEarlier(fps, j) == \E i \in 0 .. j - 1 : fps[i + 1] = fps[j + 1]

\* C20: the detector holds a cycle record exactly when the fingerprint of the
\* state after `iteration` cycles, iteration < T, equals one recorded at an
\* earlier index, and it stopped at the first index where that happens. The
\* record is offset = first, the earliest index with that fingerprint, and
\* length = iteration - first >= 1; when the fingerprint tells the visited
\* grids apart, the states after offset and after offset + length cycles are
\* the same grid.
C20_RecordIffRepeatedFingerprint ==
    (pc \in {"loop", "rerun", "done"}) =>
        LET orbit == Orbit(item, iteration)
            fps == Fingerprints(orbit)
        IN  /\ \A j \in 0 .. iteration - 1 : ~RepeatsEarlier(fps, j)
            /\ first_observations = SubSeq(fps, 1, Len(first_observations))
            /\ cycle.some =>
                   /\ iteration < iterations
                   /\ RepeatsEarlier(fps, iteration)
                   /\ cycle.offset < iteration
                   /\ first_observations[cycle.offset + 1] = fps[iteration + 1]
                   /\ \A i \in 0 .. cycle.offset - 1 :
                          first_observations[i + 1] # fps[iteration + 1]
                   /\ cycle.length = iteration - cycle.offset
                   /\ cycle.length >= 1
                   /\ (\A i, j \in 1 .. iteration + 1 :
                           fps[i] = fps[j] => orbit[i] = orbit[j])
                          => orbit[cycle.offset + 1] = orbit[cycle.offset + cycle.length + 1]
            /\ (~cycle.some /\ pc = "done") =>
                   /\ iteration = iterations
                   /\ ~panicked
            /\ (~cycle.some /\ pc = "loop" /\ iteration < iterations
                    /\ RepeatsEarlier(fps, iteration)) =>
                   \* the guard of LoopBreakSome holds, that of LoopStep does not
                   position(first_observations, state_hash(platform)).some

\* The detector stopped with a record of positive offset and length above 1
\* under a fingerprint that tells the visited grids apart.
C20_Witness ==
    /\ pc = "rerun"
    /\ cycle.some
    /\ cycle.offset >= 1
    /\ cycle.length >= 2
    /\ iteration = cycle.offset + cycle.length
    /\ DistinguishesVisited

\* ------------------------------------------------------------------ C21
\* At the head of an iteration of the detection loop: the log has `iteration`
\* entries, entry i is the fingerprint of the grid after i literal cycles, the
\* working grid is the grid after `iteration` cycles, and the entries differ
\* pairwise.
LoopHeadInvariant ==
    LET orbit == Orbit(item, iteration)
        fps == Fingerprints(orbit)
    IN  /\ Len(first_observations) = iteration
        /\ \A i \in 1 .. iteration : first_observations[i] = fps[i]
        /\ platform = orbit[iteration + 1]
        /\ ~panicked
        /\ \A i, j \in 1 .. iteration :
               first_observations[i] = first_observations[j] => i = j

\* No grid of the orbit before index `iteration` equals an earlier one.
NoEarlierStateRepeats ==
    LET orbit == Orbit(item, iteration)
    IN  \A i, j \in 1 .. iteration : orbit[i] = orbit[j] => i = j

MaxSpanCube == 2

\* A grid of the largest side with up to MaxRound round rocks and up to
\* MaxSpanCube cube rocks is tilted and cycled.
SpanInit ==
    /\ \E rounds \in UpTo(Cells(MaxN), MaxRound) :
           \E cubes \in UpTo(Cells(MaxN) \ rounds, MaxSpanCube) :
               platform = Grid(MaxN, rounds, cubes)
    /\ before = platform
    /\ lastOp = "new"
    /\ repeated = FALSE
    /\ writes = {}
    /\ panicked = FALSE
    /\ ParseIdle
    /\ SolveIdle

SpanSpec == SpanInit /\ [][Next]_vars

\* ------------------------------------------------------------------ C22
\* Line c of a grid for a direction, read from the edge the rocks are pulled
\* to: a column from the top (North) or the bottom (South), a row from the
\* left (West) or the right (East).
LineOf(p, c, direction) ==
    LET n == p.size
    IN  [g \in 1 .. n |->
            CASE direction = North -> p.rocks[g][c]
              [] direction = South -> p.rocks[n + 1 - g][c]
              [] direction = West  -> p.rocks[c][g]
              [] direction = East  -> p.rocks[c][n + 1 - g]]

\* The first and the last position of the maximal Cube-free span of a line
\* that holds position g.
SpanStart(line, g) ==
    LET cubes == {k \in 1 .. g - 1 : line[k] = Cube}
    IN  IF cubes = {} THEN 1
        ELSE 1 + (CHOOSE k \in cubes : \A j \in cubes : j <= k)

SpanEnd(line, g) ==
    LET cubes == {k \in g + 1 .. Len(line) : line[k] = Cube}
    IN  IF cubes = {} THEN Len(line)
        ELSE (CHOOSE k \in cubes : \A j \in cubes : k <= j) - 1

RoundsIn(line, from, to) == Cardinality({k \in from .. to : line[k] = Round})

\* C22: in every line, a tilt leaves the Cube cells where they were, keeps the
\* number of Round cells of every maximal Cube-free span, and leaves the round
\* rocks of a span in its cells nearest the pulling edge, the rest Empty.
C22_SpansKeepAndPackRounds ==
    lastOp \in Direction =>
        /\ ~panicked
        /\ \A c \in 1 .. before.size :
               LET was == LineOf(before, c, lastOp)
                   now == LineOf(platform, c, lastOp)
               IN  \A g \in 1 .. before.size :
                       IF was[g] = Cube THEN now[g] = Cube
                       ELSE LET from == SpanStart(was, g)
                                to == SpanEnd(was, g)
                            IN  /\ RoundsIn(now, from, to) = RoundsIn(was, from, to)
                                /\ now[g] = IF g - from < RoundsIn(was, from, to)
                                            THEN Round ELSE Empty

\* A South tilt moved a rock down a free column and left in place a rock held
\* between two cubes of another column.
C22_Witness ==
    /\ lastOp = South
    /\ before.size = 3
    /\ \E c, d \in 1 .. 3 :
           /\ before.rocks[1][c] = Round
           /\ before.rocks[2][c] = Empty
           /\ before.rocks[3][c] = Empty
           /\ platform.rocks[1][c] = Empty
           /\ platform.rocks[2][c] = Empty
           /\ platform.rocks[3][c] = Round
           /\ before.rocks[1][d] = Cube
           /\ before.rocks[2][d] = Round
           /\ before.rocks[3][d] = Cube
           /\ platform.rocks[1][d] = Cube
           /\ platform.rocks[2][d] = Round
           /\ platform.rocks[3][d] = Cube

\* ------------------------------------------------------------------ C23
RECURSIVE CycleClosure(_, _)
\* The grids reachable from p by cycling, S being those already met.
CycleClosure(S, p) ==
    IF p \in S THEN S ELSE CycleClosure(S \cup {p}, cycle_once(p))

\* The number of distinct grids reachable from p by cycling.
DistinctStates(p) == Cardinality(CycleClosure({}, p))

\* The detection loop has applied at most min(T, distinct states) cycles, and
\* the re-run fewer than the detection loop did.
CyclesBounded ==
    /\ iteration <= iterations
    /\ iteration <= DistinctStates(item)
    /\ rerun <= iteration
    /\ cycle.some => rerun < iteration

\* A whole number that every step of solve lowers: the steps still possible
\* in the detection loop and after it, or in the re-run, and 0 at the return.
StepsLeft ==
    CASE pc = "loop"  -> 2 * (iterations + 1) - iteration
      [] pc = "rerun" -> equivalent_iterations.value - rerun + 1
      [] OTHER        -> 0

\* C23: solve terminates on every square grid and every T: the detection loop
\* applies at most min(T, number of distinct grids reachable by cycling)
\* cycles and ends by reaching T or by a repeated fingerprint, the re-run
\* applies fewer cycles than that; until the return the function is in one of
\* its two loops and has not panicked, so that a step is possible, and every
\* step lowers a whole number that is never negative.
C23_SolveTerminates ==
    /\ [](CyclesBounded)
    /\ [](pc = "done" => (~panicked /\ (cycle.some \/ iteration = iterations)))
    /\ [](StepsLeft >= 0)
    /\ [](pc # "done" =>
             /\ ~panicked
             /\ pc \in {"loop", "rerun"}
             /\ pc = "rerun" => equivalent_iterations.some)
    /\ [][StepsLeft' < StepsLeft]_vars

\* solve returned after a detection loop that took as many cycles as there
\* are distinct grids, well below the target, and a re-run of two or more.
C23_Witness ==
    /\ pc = "done"
    /\ ~panicked
    /\ cycle.some
    /\ iteration = DistinctStates(item)
    /\ iteration >= 3
    /\ iteration < iterations
    /\ rerun >= 2

\* ------------------------------------------------------------------ C24
\* C24: no step of solve changes the grid it was given; when a record is
\* found the re-run starts from a copy of that grid, not from the grid the
\* detection loop accumulated, so that after k re-run cycles the working grid
\* is the input cycled k times; and the re-run ends after exactly
\* offset + ((T - offset) mod length) cycles, whose grid is the one scored.
C24_InputKeptAndRerunFromCopy ==
    /\ [][item' = item]_vars
    /\ [](pc = "rerun" =>
            /\ cycle.some
            /\ platform = CycleTimes(item, rerun)
            /\ rerun = 0 => platform = item)
    /\ []((pc = "done" /\ cycle.some) =>
            /\ rerun = cycle.offset + ((iterations - cycle.offset) % cycle.length)
            /\ platform = CycleTimes(item, rerun)
            /\ result = load(CycleTimes(item, rerun)))

\* A re-run has just started from the input although the detection loop had
\* left another grid.
C24_Witness ==
    /\ pc = "rerun"
    /\ rerun = 0
    /\ platform = item
    /\ iteration >= 2
    /\ CycleTimes(item, iteration) # item
    /\ equivalent_iterations.value >= 1

\* The re-run ended after the projected number of cycles on a grid that is
\* not the one the detection loop had left.
C24_WitnessDone ==
    /\ pc = "done"
    /\ cycle.some
    /\ rerun >= 1
    /\ platform # CycleTimes(item, iteration)
    /\ platform # item

\* ------------------------------------------------------------------ C25
\* C25: on an N x N grid no tilt and no cycle panics on an index (every read
\* and every store is bounds-checked, and a coordinate below 0 stands for a
\* wrapped subtraction), every store goes to a row and a column in 0..N-1,
\* every coordinate from_gravity yields for indices below N lies in the grid,
\* and the weight size - ri of load is never below 1; N = 0 included.
C25_IndicesInRange ==
    LET n == platform.size
    IN  /\ ~panicked
        /\ \A w \in writes :
               /\ 0 <= w.row /\ w.row < n
               /\ 0 <= w.col /\ w.col < n
        /\ \A d \in Direction :
               \A c, g \in 0 .. n - 1 :
                   InRange(platform.rocks, from_gravity(c, g, d, n))
        /\ \A ri \in 0 .. Len(platform.rocks) - 1 : n - ri >= 1

\* A cycle stored into the last row and the last column of a grid of the
\* largest side and moved a rock.
C25_Witness ==
    /\ lastOp = "cycle"
    /\ platform.size = MaxN
    /\ platform # before
    /\ \E w \in writes : w.row = MaxN - 1 /\ w.new = Round
    /\ \E w \in writes : w.col = MaxN - 1 /\ w.new = Round

\* The empty grid was tilted South and cycled: nothing is read or stored.
C25_WitnessEmpty ==
    /\ platform.size = 0
    /\ lastOp = "cycle"
    /\ writes = {}

\* ------------------------------------------------------------------ C26
\* The dimensions of a platform: the field size, the number of rows and the
\* length of every row.
Dimensions(p) ==
    [size |-> p.size, rows |-> Len(p.rocks),
     cols |-> [r \in 1 .. Len(p.rocks) |-> Len(p.rocks[r])]]

\* C26: no tilt and no cycle changes the dimensions of the grid: the field
\* size, the number of rows and the length of every row stay what
\* construction made them, and size stays the number of rows.
C26_DimensionsNeverChange ==
    /\ [][Dimensions(platform') = Dimensions(platform)]_vars
    /\ [](Dimensions(platform) = Dimensions(before))
    /\ [](platform.size = Len(platform.rocks))

\* A cycle moved rocks on a grid of the largest side with MaxRound rocks.
C26_Witness ==
    /\ lastOp = "cycle"
    /\ platform # before
    /\ before.size = MaxN
    /\ CountOf(before, Round) = MaxRound
    /\ Dimensions(platform) = Dimensions(before)
    /\ \E rc \in CellsOf(before, Round) : platform.rocks[rc[1]][rc[2]] = Empty

\* ------------------------------------------------------------------ C27
\* C27: whenever a record exists, and so whenever the projection is computed,
\* offset < T and length >= 1: the subtraction T - offset does not wrap and
\* the remainder is not taken by zero, and solve does not panic.
C27_ProjectionArithmeticSafe ==
    /\ ~panicked
    /\ cycle.some =>
           /\ cycle.offset < iterations
           /\ cycle.offset + cycle.length < iterations + 1
           /\ cycle.length >= 1
           /\ iterations - cycle.offset >= 1
           /\ equivalent_iterations.some
    /\ equivalent_iterations.some => cycle.some

\* The projection was computed with the least margin: a record of length 1
\* found one cycle before the target, T - offset = 2.
C27_Witness ==
    /\ cycle.some
    /\ equivalent_iterations.some
    /\ cycle.offset >= 1
    /\ cycle.length = 1
    /\ iterations = cycle.offset + 2

\* ------------------------------------------------------------------ C28
\* Two grids among those the detector has fingerprinted are distinct and have
\* the same fingerprint. (The grid after T cycles is never fingerprinted.)
CollisionSeen ==
    LET last == IF cycle.some \/ (pc = "loop" /\ iteration < iterations)
                THEN iteration ELSE iteration - 1
        orbit == Orbit(item, iteration)
        fps == Fingerprints(orbit)
    IN  \E i, j \in 1 .. last + 1 : fps[i] = fps[j] /\ orbit[i] # orbit[j]

\* C28: the detector compares fingerprints only. Once it has fingerprinted
\* two distinct grids of equal fingerprint it stops with a record, whether at
\* once (the guard of the break holds) or already: the record's grids at
\* offset and at offset + length = iteration have the same fingerprint and
\* are not the same grid; and a record whose two grids are equal is never
\* reported in the presence of such a pair.
C28_CollisionGivesFalseRecord ==
    CollisionSeen =>
        LET orbit == Orbit(item, iteration)
            fps == Fingerprints(orbit)
        IN  /\ pc = "loop" => position(first_observations, state_hash(platform)).some
            /\ pc # "loop" =>
                   /\ cycle.some
                   /\ cycle.offset + cycle.length = iteration
                   /\ fps[cycle.offset + 1] = fps[iteration + 1]
                   /\ orbit[cycle.offset + 1] # orbit[iteration + 1]

\* solve returned, from a record whose two grids differ, a load that is not
\* the load after T literal cycles.
C28_Witness ==
    /\ pc = "done"
    /\ CollisionSeen
    /\ cycle.some
    /\ CycleTimes(item, cycle.offset) # CycleTimes(item, cycle.offset + cycle.length)
    /\ result # load(CycleTimes(item, iterations))

\* ------------------------------------------------------------------ C29
\* The number of Round cells of each row of a grid.
RoundsPerRow(p) ==
    [r \in 1 .. Len(p.rocks) |->
        Cardinality({c \in 1 .. Len(p.rocks[r]) : p.rocks[r][c] = Round})]

\* C29: a North tilt never lowers the load, a South tilt never raises it, and
\* an East or a West tilt leaves it as it was, the round rocks staying in
\* their rows.
C29_LoadMonotoneInDirection ==
    /\ lastOp = North => load(platform) >= load(before)
    /\ lastOp = South => load(platform) <= load(before)
    /\ lastOp \in {East, West} =>
           /\ load(platform) = load(before)
           /\ RoundsPerRow(platform) = RoundsPerRow(before)

\* A South tilt lowered the load of a grid with a cube.
C29_Witness ==
    /\ lastOp = South
    /\ CountOf(before, Cube) = 1
    /\ load(platform) < load(before)
    /\ load(platform) > CountOf(platform, Round)

\* A North tilt raised the load.
C29_WitnessNorth ==
    /\ lastOp = North
    /\ load(platform) > load(before)

\* An East tilt moved rocks and left the load as it was.
C29_WitnessEast ==
    /\ lastOp = East
    /\ platform # before
    /\ load(platform) = load(before)
    /\ load(platform) > 0

\* ------------------------------------------------------------------ rectangles
\* The platform from_iter builds from nrows rows of ncols cells each.
Rect(nrows, ncols, rounds, cubes) ==
    from_iter([r \in 1 .. nrows |->
                  [c \in 1 .. ncols |->
                      IF <<r, c>> \in rounds THEN Round
                      ELSE IF <<r, c>> \in cubes THEN Cube ELSE Empty]])

\* A rectangular grid that is not square, of up to MaxN rows and columns,
\* is tilted and cycled until an index panics.
RectInit ==
    /\ \E nrows, ncols \in 1 .. MaxN :
           /\ nrows # ncols
           /\ \E rounds \in UpTo((1 .. nrows) \X (1 .. ncols), MaxRound) :
                  \E cubes \in UpTo(((1 .. nrows) \X (1 .. ncols)) \ rounds, MaxCube) :
                      platform = Rect(nrows, ncols, rounds, cubes)
    /\ before = platform
    /\ lastOp = "new"
    /\ repeated = FALSE
    /\ writes = {}
    /\ panicked = FALSE
    /\ ParseIdle
    /\ SolveIdle

RectSpec == RectInit /\ [][Next]_vars

\* ------------------------------------------------------------------ C30
\* The leading block of a grid: its first k columns, as a square platform of
\* its own when the grid has k rows.
LeadingBlock(p, k) ==
    [rocks |-> [r \in 1 .. Len(p.rocks) |-> SubSeq(p.rocks[r], 1, k)],
     size |-> p.size]

\* C30: the size of a grid is its number of rows. With more columns than
\* rows (R rows) no tilt and no cycle panics, every store goes to the leading
\* R x R block, that block ends as the tilt or the cycle of the block alone
\* leaves it (East and South counting from index R - 1), and the cells of the
\* columns from R on are what they were. With more rows than columns a tilt
\* to the North or to the West indexes past the end of a row.
C30_SizeIsRowCount ==
    LET nrows == Len(platform.rocks)
        ncols == Len(platform.rocks[1])
    IN  /\ platform.size = nrows
        /\ (ncols > nrows /\ lastOp # "new") =>
               /\ ~panicked
               /\ \A w \in writes : w.row < nrows /\ w.col < nrows
               /\ LeadingBlock(platform, nrows) =
                      IF lastOp = "cycle"
                      THEN cycle_once(LeadingBlock(before, nrows))
                      ELSE tilt(LeadingBlock(before, nrows), lastOp)
               /\ \A r \in 1 .. nrows : \A c \in nrows + 1 .. ncols :
                      platform.rocks[r][c] = before.rocks[r][c]
        /\ (nrows > ncols /\ lastOp \in {North, West}) => panicked

\* On a grid of 2 rows and 3 columns an East tilt moved a rock of the first
\* column to the second and left a rock of the third column where it was.
C30_Witness ==
    /\ lastOp = East
    /\ ~panicked
    /\ Len(before.rocks) = 2
    /\ Len(before.rocks[1]) = 3
    /\ before.rocks[1] = <<Round, Empty, Empty>>
    /\ platform.rocks[1] = <<Empty, Round, Empty>>
    /\ before.rocks[2][3] = Round
    /\ platform.rocks[2][3] = Round

\* On a grid of 3 rows and 2 columns a North tilt panicked.
C30_WitnessPanic ==
    /\ lastOp = North
    /\ panicked
    /\ Len(before.rocks) = 3
    /\ Len(before.rocks[1]) = 2
    /\ before.size = 3

====
